---------------------------- MODULE Spec2Model ----------------------------
(***************************************************************************)
(* Folder-scoped RBAC engine of backend/iam/models.py.                     *)
(*                                                                         *)
(* The state is the content of the backing store: the folder tree, the     *)
(* user groups, the role catalog and the role assignments, together with   *)
(* the position of a domain provisioner (Folder.create_default_ug_and_ra)  *)
(* and what a concurrent reader saw last.  The queries of the engine       *)
(* (is_access_allowed, get_accessible_folders, get_accessible_object_ids,  *)
(* get_role_assignments) are pure functions of the store and are           *)
(* operators, computed loop by loop as the code computes them.             *)
(*                                                                         *)
(* Five specifications share the state and the operators:                  *)
(*   Spec      administration of the store for the access decisions:       *)
(*             domains under the root, assignments bound to a user or to   *)
(*             a group                                                     *)
(*   EnumSpec  administration of the store for the bulk enumerations:      *)
(*             domains and enclaves, assignments bound to the user         *)
(*   StoreSpec the writes the model layer accepts unchecked: folders of    *)
(*             any content_type, folders moved, assignments with any pair  *)
(*             of principal references                                     *)
(*   ProvSpec  runs of the domain provisioner, statement by statement,     *)
(*             next to a reader                                            *)
(*   LocatorSpec  calls of Folder.get_folder on objects of every shape     *)
(***************************************************************************)
EXTENDS Integers, Sequences, FiniteSets, TLC

VARIABLES
    folders,            \* Folder table: id -> [content_type, parent_folder]
    usergroups,         \* UserGroup table: set of rows
    user_groups,        \* User.user_groups (many-to-many): user -> set of group ids
    roles,              \* Role table: name -> Role.permissions
    role_assignments,   \* RoleAssignment table: set of rows
    prov,               \* the provisioner: its program counter and locals
    observed,           \* what the last reader saw of a folder's builtin rows
    located             \* a call of Folder.get_folder: its argument and its result

vars ==
    <<folders, usergroups, user_groups, roles, role_assignments, prov, observed,
      located>>

---------------------------------------------------------------------------
(* Bounds of the exploration *)

\* folders the store holds at most (the root included)
MaxFolders == 3
\* role assignments an administrator creates at most
MaxAssignments == 1

---------------------------------------------------------------------------
(* Values *)

\* Python's None, for a folder reference and for a principal reference
NoFolder == 0
NoPrincipal == <<>>

\* Folder.ContentType
ROOT == "GL"
DOMAIN_ == "DO"
ENCLAVE == "EN"
ContentType == {ROOT, DOMAIN_, ENCLAVE}

\* a permission is its codename <verb>_<kind>, kept as the pair <<verb, kind>>
codename(verb, kind) == <<verb, kind>>
view_folder == codename("view", "folder")
add_filteringlabel == codename("add", "filteringlabel")
Verbs == {"view", "change", "delete"}
Permissions ==
    {codename(v, "threat") : v \in Verbs} \cup {view_folder, add_filteringlabel}

\* the users of the store; a principal is a user or a user group
Users == {<<"user", "u1">>, <<"user", "u2">>}

\* UserGroupCodename and RoleCodename (core.utils)
UG_READER == "BI-UG-AUD"
UG_APPROVER == "BI-UG-APP"
UG_ANALYST == "BI-UG-ANA"
UG_DOMAIN_MANAGER == "BI-UG-DMA"
UG_ADMINISTRATOR == "BI-UG-ADM"
RL_READER == "BI-RL-AUD"
RL_APPROVER == "BI-RL-APP"
RL_ANALYST == "BI-RL-ANA"
RL_DOMAIN_MANAGER == "BI-RL-DMA"

\* the id of the user group `name` scoped to `folder`
UserGroupId(name, folder) == <<"group", name, folder>>

\* a UserGroup row
UserGroup(name, folder, builtin) ==
    [id |-> UserGroupId(name, folder), name |-> name, folder |-> folder,
     builtin |-> builtin]

\* a RoleAssignment row
RoleAssignment(user, user_group, role, perimeter_folders, is_recursive, builtin, folder) ==
    [user |-> user, user_group |-> user_group, role |-> role,
     perimeter_folders |-> perimeter_folders, is_recursive |-> is_recursive,
     builtin |-> builtin, folder |-> folder]

---------------------------------------------------------------------------
(* Order of a queryset: rows come in one fixed order *)

RECURSIVE SetToSeq(_)
SetToSeq(S) ==
    IF S = {} THEN <<>>
    ELSE LET x == CHOOSE y \in S : TRUE IN <<x>> \o SetToSeq(S \ {x})

RECURSIVE SortedSeq(_)
SortedSeq(S) ==
    IF S = {} THEN <<>>
    ELSE LET x == CHOOSE y \in S : \A z \in S : y <= z
         IN <<x>> \o SortedSeq(S \ {x})

Range(s) == {s[i] : i \in 1..Len(s)}

---------------------------------------------------------------------------
(* Folder *)

FolderIds == DOMAIN folders

\* _get_root_folder: Folder.objects.get(content_type=ROOT), None when get() raises
\* (no root, or more than one)
get_root_folder ==
    LET found == {f \in FolderIds : folders[f].content_type = ROOT}
    IN IF Cardinality(found) = 1 THEN CHOOSE f \in found : TRUE ELSE NoFolder

parent_folder(f) == folders[f].parent_folder

\* folder.folder_set.all(): the folders whose parent_folder is `folder`
folder_set(folder) == {c \in FolderIds : folders[c].parent_folder = folder}

\* Folder.get_sub_folders: depth first, the folder itself excluded
RECURSIVE sub_folders_in(_)
sub_folders_in(folder) ==
    LET kids == SortedSeq(folder_set(folder))
        RECURSIVE each(_)
        each(i) ==
            IF i > Len(kids) THEN <<>>
            ELSE <<kids[i]>> \o sub_folders_in(kids[i]) \o each(i + 1)
    IN each(1)

get_sub_folders(self) == sub_folders_in(self)

\* Folder.get_parent_folders: parent, grand-parent, ... while not None
RECURSIVE get_parent_folders(_)
get_parent_folders(self) ==
    LET current_folder == parent_folder(self)
    IN IF current_folder = NoFolder THEN <<>>
       ELSE <<current_folder>> \o get_parent_folders(current_folder)

\* get_parent_folders with a plausible fault: the loop stops one folder early,
\* at the folder whose parent is None, without yielding it
RECURSIVE get_parent_folders_first_below_top(_, _)
get_parent_folders_first_below_top(self, n) ==
    IF n = 0 THEN <<>>
    ELSE LET current_folder == parent_folder(self)
         IN IF current_folder = NoFolder THEN <<>>
            ELSE IF parent_folder(current_folder) = NoFolder THEN <<>>
            ELSE <<current_folder>>
                 \o get_parent_folders_first_below_top(current_folder, n - 1)

\* the first n folders the generator Folder.get_parent_folders yields (all of
\* them when it is exhausted before): each turn of the while loop reads
\* current_folder.parent_folder and yields it unless it is None
RECURSIVE get_parent_folders_first(_, _)
get_parent_folders_first(self, n) ==
    IF n = 0 THEN <<>>
    ELSE LET current_folder == parent_folder(self)
         IN IF current_folder = NoFolder THEN <<>>
            ELSE <<current_folder>> \o get_parent_folders_first(current_folder, n - 1)

\* the first n folders the generator Folder.get_sub_folders yields: `pending`
\* holds the folders the nested sub_folders_in loops have still to yield, the
\* next one first
RECURSIVE sub_folders_in_first(_, _)
sub_folders_in_first(pending, n) ==
    IF n = 0 \/ pending = <<>> THEN <<>>
    ELSE LET sub_folder == Head(pending)
         IN <<sub_folder>>
            \o sub_folders_in_first(SortedSeq(folder_set(sub_folder)) \o Tail(pending),
                                    n - 1)

get_sub_folders_first(self, n) == sub_folders_in_first(SortedSeq(folder_set(self)), n)

---------------------------------------------------------------------------
(* RoleAssignment: the principal's assignments *)

\* hasattr(principal, "user_groups"): users have groups, groups have none
has_user_groups(principal) == principal[1] = "user"

\* principal.roleassignment_set.all()
roleassignment_set(principal) ==
    IF has_user_groups(principal)
    THEN {ra \in role_assignments : ra.user = principal}
    ELSE {ra \in role_assignments : ra.user_group = principal}

\* RoleAssignment.get_role_assignments: a list; the principal's own rows, the rows
\* of each of its groups, and the principal's own rows once more
get_role_assignments(principal) ==
    LET own == SetToSeq(roleassignment_set(principal))
        groups == IF has_user_groups(principal)
                  THEN SetToSeq(user_groups[principal]) ELSE <<>>
        RECURSIVE of_groups(_)
        of_groups(i) ==
            IF i > Len(groups) THEN <<>>
            ELSE SetToSeq(roleassignment_set(groups[i])) \o of_groups(i + 1)
    IN own \o of_groups(1) \o own

\* ra.role.permissions.all()
role_permissions(ra) == roles[ra.role]

---------------------------------------------------------------------------
(* RoleAssignment.is_access_allowed *)

\* is_access_allowed with a plausible fault, by `fault`:
\*   "no_walk"         the folder itself is tested, its ancestors are not
\*   "recursive_only"  the ancestors are walked for recursive assignments only
\*   "no_add_tag"      the add_tag permission gets no special treatment
faulty_is_access_allowed(fault, user, perm, folder) ==
    LET ras == get_role_assignments(user)
        RECURSIVE walk(_, _)
        walk(ra, f) ==
            IF f = NoFolder THEN FALSE
            ELSE IF f \in ra.perimeter_folders /\ perm \in role_permissions(ra)
                 THEN TRUE
                 ELSE IF \/ fault = "no_walk"
                         \/ (fault = "recursive_only" /\ ~ra.is_recursive)
                      THEN FALSE
                      ELSE walk(ra, parent_folder(f))
        RECURSIVE each(_)
        each(i) ==
            IF i > Len(ras) THEN FALSE
            ELSE IF /\ fault # "no_add_tag"
                    /\ perm = add_filteringlabel
                    /\ perm \in role_permissions(ras[i])
                 THEN TRUE
                 ELSE IF walk(ras[i], folder) THEN TRUE ELSE each(i + 1)
    IN each(1)

is_access_allowed_no_walk(user, perm, folder) ==
    faulty_is_access_allowed("no_walk", user, perm, folder)

is_access_allowed_recursive_only(user, perm, folder) ==
    faulty_is_access_allowed("recursive_only", user, perm, folder)

is_access_allowed_no_add_tag(user, perm, folder) ==
    faulty_is_access_allowed("no_add_tag", user, perm, folder)

is_access_allowed(user, perm, folder) ==
    LET add_tag_permission == add_filteringlabel
        ras == get_role_assignments(user)
        RECURSIVE walk(_, _)
        \* while f is not None: ... f = f.parent_folder
        walk(ra, f) ==
            IF f = NoFolder THEN FALSE
            ELSE IF f \in ra.perimeter_folders /\ perm \in role_permissions(ra)
                 THEN TRUE
                 ELSE walk(ra, parent_folder(f))
        RECURSIVE each(_)
        \* for ra in RoleAssignment.get_role_assignments(user)
        each(i) ==
            IF i > Len(ras) THEN FALSE
            ELSE IF perm = add_tag_permission /\ perm \in role_permissions(ras[i])
                 THEN TRUE
                 ELSE IF walk(ras[i], folder) THEN TRUE ELSE each(i + 1)
    IN each(1)

---------------------------------------------------------------------------
(* RoleAssignment.get_accessible_folders *)

\* the content_type argument may be absent (falsy)
NoContentType == ""

\* get_accessible_folders with a plausible fault: the folders below a perimeter
\* folder are added for recursive assignments only
get_accessible_folders_recursive_only(folder, user, content_type, codename_) ==
    LET ras == SelectSeq(get_role_assignments(user),
                         LAMBDA x : /\ view_folder \in role_permissions(x)
                                    /\ codename_ \in role_permissions(x))
        of_ra(ra) ==
            UNION {{f} \cup (IF ra.is_recursive THEN Range(get_sub_folders(f))
                             ELSE {}) : f \in ra.perimeter_folders}
        RECURSIVE each(_)
        each(i) == IF i > Len(ras) THEN {} ELSE of_ra(ras[i]) \cup each(i + 1)
        perimeter == {folder} \cup Range(get_sub_folders(folder))
    IN {x \in each(1) :
            /\ (IF content_type # NoContentType
                THEN folders[x].content_type = content_type ELSE TRUE)
            /\ x \in perimeter}

get_accessible_folders(folder, user, content_type, codename_) ==
    LET ref_permission == codename_
        ras == SelectSeq(get_role_assignments(user),
                         LAMBDA x : /\ view_folder \in role_permissions(x)
                                    /\ ref_permission \in role_permissions(x))
        \* for f in ra.perimeter_folders.all(): add f and f.get_sub_folders()
        of_ra(ra) ==
            UNION {{f} \cup Range(get_sub_folders(f)) : f \in ra.perimeter_folders}
        RECURSIVE each(_)
        each(i) == IF i > Len(ras) THEN {} ELSE of_ra(ras[i]) \cup each(i + 1)
        folders_set == each(1)
        perimeter == {folder} \cup Range(get_sub_folders(folder))
    IN {x \in folders_set :
            /\ (IF content_type # NoContentType
                THEN folders[x].content_type = content_type ELSE TRUE)
            /\ x \in perimeter}

---------------------------------------------------------------------------
(* The objects located in the folders *)

\* an object type is its lower-case class name and the attributes hasattr() finds
Threat == [name |-> "threat", attrs |-> {"folder", "is_published"}]
FolderType == [name |-> "folder", attrs |-> {"parent_folder"}]
\* PersonalAccessToken has a name and an auth_token, none of the attributes that
\* lead to a folder
PersonalAccessToken == [name |-> "personalaccesstoken", attrs |-> {}]
\* the types with an attribute that leads to a folder
ObjectTypes == {Threat, FolderType}

\* object_type.objects.all(): every folder holds one unpublished and, for a type
\* with a publication flag, one published object of each type that reaches a
\* folder (field `folder`: the folder its relation leads to); an object attached
\* to the root folder is saved published (PublishInRootFolderMixin.save)
objects_all(object_type) ==
    IF object_type.attrs
         \cap {"folder", "risk_assessment", "entity", "provider_entity"} = {}
    THEN {}
    ELSE {[id |-> <<object_type.name, fp[1], fp[2]>>, folder |-> fp[1],
           is_published |-> fp[2]] :
            fp \in {x \in FolderIds \X BOOLEAN :
                      /\ x[2] => "is_published" \in object_type.attrs
                      /\ ("is_published" \in object_type.attrs
                            /\ x[1] = get_root_folder) => x[2]}}

\* object_type.objects.filter(folder=f).values_list("id", flat=True)
objects_in_folder(object_type, f) ==
    {o.id : o \in {x \in objects_all(object_type) : x.folder = f}}

\* object_type.objects.filter(folder=f, is_published=True).values_list("id", flat=True)
published_in_folder(object_type, f) ==
    {o.id : o \in {x \in objects_all(object_type) : x.folder = f /\ x.is_published}}

---------------------------------------------------------------------------
(* RoleAssignment.get_accessible_object_ids *)

\* target_folders with a plausible fault: the perimeter is expanded to the
\* folders below it whatever is_recursive says
target_folders_always_expanded(ra, perimeter) ==
    perimeter
      \cap (ra.perimeter_folders
              \cup UNION {Range(get_sub_folders(f)) : f \in ra.perimeter_folders})

\* the folders an assignment reaches inside the queried perimeter
target_folders(ra, perimeter) ==
    LET ra_perimeter ==
            IF ra.is_recursive
            THEN ra.perimeter_folders
                 \cup UNION {Range(get_sub_folders(f)) : f \in ra.perimeter_folders}
            ELSE ra.perimeter_folders
    IN perimeter \cap ra_perimeter

\* result_folders, a defaultdict(set): folder -> the permissions granted on it
result_folders_of(ras, permissions, perimeter) ==
    LET RECURSIVE each(_, _)
        each(i, acc) ==
            IF i > Len(ras) THEN acc
            ELSE LET ra == ras[i]
                     granted == permissions \cap role_permissions(ra)
                     touched == IF granted = {} THEN {}
                                ELSE target_folders(ra, perimeter)
                 IN each(i + 1,
                         [f \in DOMAIN acc \cup touched |->
                            (IF f \in DOMAIN acc THEN acc[f] ELSE {})
                            \cup (IF f \in touched THEN granted ELSE {})])
    IN each(1, <<>>)

\* the ids of the objects of the type located in f; "raise" when no branch applies
objects_ids_of(object_type, f) ==
    IF "folder" \in object_type.attrs THEN objects_in_folder(object_type, f)
    ELSE IF "risk_assessment" \in object_type.attrs
         THEN objects_in_folder(object_type, f)
    ELSE IF "entity" \in object_type.attrs THEN objects_in_folder(object_type, f)
    ELSE IF "provider_entity" \in object_type.attrs
         THEN objects_in_folder(object_type, f)
    ELSE IF "parent_folder" \in object_type.attrs THEN {f}
    ELSE {"raise"}

\* the walk over the ancestors of a folder with a local view permission
RECURSIVE published_above(_, _)
published_above(object_type, my_folder2) ==
    IF my_folder2 = NoFolder THEN {}
    ELSE published_in_folder(object_type, my_folder2)
         \cup published_above(object_type, parent_folder(my_folder2))

\* get_accessible_object_ids with a plausible fault: the assignments are not
\* filtered on view_folder
get_accessible_object_ids_any_role(folder, user, object_type) ==
    LET class_name == object_type.name
        permission_view == codename("view", class_name)
        permission_change == codename("change", class_name)
        permission_delete == codename("delete", class_name)
        permissions == {permission_view, permission_change, permission_delete}
        ref_permission == view_folder
        perimeter == {folder} \cup Range(get_sub_folders(folder))
        ras == get_role_assignments(user)
        result_folders == result_folders_of(ras, permissions, perimeter)
        with(p) == {f \in DOMAIN result_folders : p \in result_folders[f]}
        unsupported ==
            /\ DOMAIN result_folders # {}
            /\ object_type.attrs \cap {"folder", "risk_assessment", "entity",
                                       "provider_entity", "parent_folder"} = {}
        folders_with_local_view == with(permission_view)
        overlay ==
            IF {"is_published", "folder"} \subseteq object_type.attrs
            THEN UNION {published_above(object_type, parent_folder(my_folder)) :
                          my_folder \in {f \in folders_with_local_view :
                                           folders[f].content_type # ENCLAVE}}
            ELSE {}
    IN IF unsupported
       THEN [raised |-> "NotImplementedError", view |-> {}, change |-> {},
             delete |-> {}]
       ELSE [raised |-> "",
             view |-> UNION {objects_ids_of(object_type, f) :
                               f \in with(permission_view)} \cup overlay,
             change |-> UNION {objects_ids_of(object_type, f) :
                                 f \in with(permission_change)},
             delete |-> UNION {objects_ids_of(object_type, f) :
                                 f \in with(permission_delete)}]

get_accessible_object_ids(folder, user, object_type) ==
    LET class_name == object_type.name
        permission_view == codename("view", class_name)
        permission_change == codename("change", class_name)
        permission_delete == codename("delete", class_name)
        permissions == {permission_view, permission_change, permission_delete}
        ref_permission == view_folder
        perimeter == {folder} \cup Range(get_sub_folders(folder))
        ras == SelectSeq(get_role_assignments(user),
                         LAMBDA ra : ref_permission \in role_permissions(ra))
        result_folders == result_folders_of(ras, permissions, perimeter)
        with(p) == {f \in DOMAIN result_folders : p \in result_folders[f]}
        unsupported ==
            /\ DOMAIN result_folders # {}
            /\ object_type.attrs \cap {"folder", "risk_assessment", "entity",
                                       "provider_entity", "parent_folder"} = {}
        folders_with_local_view == with(permission_view)
        overlay ==
            IF {"is_published", "folder"} \subseteq object_type.attrs
            THEN UNION {published_above(object_type, parent_folder(my_folder)) :
                          my_folder \in {f \in folders_with_local_view :
                                           folders[f].content_type # ENCLAVE}}
            ELSE {}
    IN IF unsupported
       THEN [raised |-> "NotImplementedError", view |-> {}, change |-> {},
             delete |-> {}]
       ELSE [raised |-> "",
             view |-> UNION {objects_ids_of(object_type, f) :
                               f \in with(permission_view)} \cup overlay,
             change |-> UNION {objects_ids_of(object_type, f) :
                                 f \in with(permission_change)},
             delete |-> UNION {objects_ids_of(object_type, f) :
                                 f \in with(permission_delete)}]

---------------------------------------------------------------------------
(* RoleAssignment.get_permissions_per_folder *)

\* get_permissions_per_folder with a plausible fault: with recursive set, every
\* assignment is transmitted to the folders below its perimeter, whatever its
\* is_recursive flag
get_permissions_per_folder_any_assignment(principal, recursive) ==
    LET ras == get_role_assignments(principal)
        reached(ra) ==
            ra.perimeter_folders
              \cup (IF recursive
                    THEN UNION {Range(get_sub_folders(f)) : f \in ra.perimeter_folders}
                    ELSE {})
        RECURSIVE each(_, _)
        each(i, acc) ==
            IF i > Len(ras) THEN acc
            ELSE each(i + 1,
                      [f \in DOMAIN acc \cup reached(ras[i]) |->
                         (IF f \in DOMAIN acc THEN acc[f] ELSE {})
                         \cup (IF f \in reached(ras[i])
                               THEN role_permissions(ras[i]) ELSE {})])
    IN each(1, <<>>)

\* permissions, a defaultdict(set): folder -> the permissions of the assignments
\* that reach it; a folder no assignment reaches has no entry
get_permissions_per_folder(principal, recursive) ==
    LET ras == get_role_assignments(principal)
        \* for folder in ra.perimeter_folders.all(): the folder and, if recursive
        \* and ra.is_recursive, folder.get_sub_folders()
        reached(ra) ==
            ra.perimeter_folders
              \cup (IF recursive /\ ra.is_recursive
                    THEN UNION {Range(get_sub_folders(f)) : f \in ra.perimeter_folders}
                    ELSE {})
        RECURSIVE each(_, _)
        \* for ra in cls.get_role_assignments(principal)
        each(i, acc) ==
            IF i > Len(ras) THEN acc
            ELSE LET ra_permissions == role_permissions(ras[i])
                     touched == reached(ras[i])
                 IN each(i + 1,
                         [f \in DOMAIN acc \cup touched |->
                            (IF f \in DOMAIN acc THEN acc[f] ELSE {})
                            \cup (IF f \in touched THEN ra_permissions ELSE {})])
    IN each(1, <<>>)

---------------------------------------------------------------------------
(* The initial store and the administrative operations *)

\* the global administrators group, scoped to the root folder
Administrators == UserGroup(UG_ADMINISTRATOR, 1, TRUE)

\* a role catalog: two builtin roles (the analyst may also view the personal
\* access tokens) and one custom role without view_folder
Catalog ==
    (RL_READER :> {view_folder, codename("view", "threat")})
    @@ (RL_ANALYST :> {view_folder, add_filteringlabel,
                       codename("view", "personalaccesstoken")}
                          \cup {codename(v, "threat") : v \in Verbs})
    @@ ("tagger" :> {add_filteringlabel, codename("view", "threat"),
                     codename("change", "threat")})

Idle == [pc |-> "idle", called |-> {}]
NothingObserved == [folder |-> NoFolder]
NotLocated == [pc |-> "idle"]

Init ==
    /\ folders = (1 :> [content_type |-> ROOT, parent_folder |-> NoFolder])
    /\ usergroups = {Administrators}
    /\ user_groups = (<<"user", "u1">> :> {Administrators.id})
                     @@ (<<"user", "u2">> :> {})
    /\ roles = Catalog
    /\ role_assignments = {}
    /\ prov = Idle
    /\ observed = NothingObserved
    /\ located = NotLocated

\* a folder is created under an existing folder (Folder.objects.create)
CreateFolder(parent, ct) ==
    /\ Cardinality(FolderIds) < MaxFolders
    /\ parent \in FolderIds
    /\ LET id == Cardinality(FolderIds) + 1
       IN folders' = folders @@ (id :> [content_type |-> ct, parent_folder |-> parent])
    /\ observed' = NothingObserved
    /\ UNCHANGED <<located, usergroups, user_groups, roles, role_assignments, prov>>

\* an administrator binds a principal to a role over one folder
\* (RoleAssignment.objects.create, then perimeter_folders.add)
CreateRoleAssignment(principal, role, f, is_recursive) ==
    /\ Cardinality({ra \in role_assignments : ~ra.builtin}) < MaxAssignments
    /\ f \in FolderIds
    /\ role \in DOMAIN roles
    /\ LET ra == IF has_user_groups(principal)
                 THEN RoleAssignment(principal, NoPrincipal, role, {f},
                                     is_recursive, FALSE, get_root_folder)
                 ELSE RoleAssignment(NoPrincipal, principal, role, {f},
                                     is_recursive, FALSE, get_root_folder)
       IN /\ ra \notin role_assignments
          /\ role_assignments' = role_assignments \cup {ra}
    /\ UNCHANGED <<located, folders, usergroups, user_groups, roles, prov, observed>>

\* an administrator flips the is_recursive flag of an assignment
UpdateIsRecursive(ra) ==
    /\ ra \in role_assignments
    /\ LET flipped == [ra EXCEPT !.is_recursive = ~ra.is_recursive]
       IN /\ flipped \notin role_assignments
          /\ role_assignments' = (role_assignments \ {ra}) \cup {flipped}
    /\ UNCHANGED <<located, folders, usergroups, user_groups, roles, prov, observed>>

\* the access decisions read the position of a folder, never its content_type,
\* and follow both the user's own assignments and those of its groups
Next ==
    \/ \E parent \in FolderIds : CreateFolder(parent, DOMAIN_)
    \/ \E principal \in {<<"user", "u1">>, Administrators.id},
          role \in DOMAIN roles, f \in FolderIds, is_recursive \in BOOLEAN :
            CreateRoleAssignment(principal, role, f, is_recursive)
    \/ \E ra \in role_assignments : UpdateIsRecursive(ra)

Spec == Init /\ [][Next]_vars

\* the bulk enumerations read the content_type of the folders (the publication
\* overlay, the content_type filter) and the assignments of one user
EnumNext ==
    \/ \E parent \in FolderIds, ct \in {DOMAIN_, ENCLAVE} : CreateFolder(parent, ct)
    \/ \E role \in DOMAIN roles, f \in FolderIds, is_recursive \in BOOLEAN :
            CreateRoleAssignment(<<"user", "u1">>, role, f, is_recursive)
    \/ \E ra \in role_assignments : UpdateIsRecursive(ra)

EnumSpec == Init /\ [][EnumNext]_vars

\* RoleAssignment.objects.create(user=..., user_group=..., role=...), then
\* perimeter_folders.add: both references are nullable and the model checks
\* neither of them
SaveRoleAssignment(user, user_group, role, f, is_recursive) ==
    /\ Cardinality({ra \in role_assignments : ~ra.builtin}) < MaxAssignments
    /\ f \in FolderIds
    /\ role \in DOMAIN roles
    /\ LET ra == RoleAssignment(user, user_group, role, {f}, is_recursive, FALSE,
                                get_root_folder)
       IN /\ ra \notin role_assignments
          /\ role_assignments' = role_assignments \cup {ra}
    /\ UNCHANGED <<located, folders, usergroups, user_groups, roles, prov, observed>>

\* folder.parent_folder = parent; folder.save(): the field takes any folder, or
\* None, and the model checks nothing
SaveParentFolder(f, parent) ==
    /\ f \in FolderIds
    /\ parent \in FolderIds \cup {NoFolder}
    /\ parent # folders[f].parent_folder
    /\ folders' = [folders EXCEPT ![f].parent_folder = parent]
    /\ observed' = NothingObserved
    /\ UNCHANGED <<located, usergroups, user_groups, roles, role_assignments, prov>>

\* the writes the model layer accepts: a folder of any content_type, a folder
\* moved under any folder, an assignment with any pair of principal references
StoreNext ==
    \/ \E parent \in FolderIds, ct \in {ROOT, DOMAIN_} : CreateFolder(parent, ct)
    \/ \E f \in FolderIds, parent \in FolderIds \cup {NoFolder} :
            SaveParentFolder(f, parent)
    \/ \E user \in {NoPrincipal, <<"user", "u1">>},
          user_group \in {NoPrincipal, Administrators.id} :
            SaveRoleAssignment(user, user_group, RL_READER, 1, FALSE)

StoreSpec == Init /\ [][StoreNext]_vars

---------------------------------------------------------------------------
(* Folder.create_default_ug_and_ra, statement by statement *)

\* the four builtin user groups of a domain, each with the builtin role it is bound
\* to, in the order of the code
Builtins ==
    <<[user_group |-> UG_READER, role |-> RL_READER],
      [user_group |-> UG_APPROVER, role |-> RL_APPROVER],
      [user_group |-> UG_ANALYST, role |-> RL_ANALYST],
      [user_group |-> UG_DOMAIN_MANAGER, role |-> RL_DOMAIN_MANAGER]>>

\* the role catalog with the four builtin roles
BuiltinCatalog ==
    (RL_READER :> {view_folder, codename("view", "threat")})
    @@ (RL_APPROVER :> {view_folder, codename("view", "threat")})
    @@ (RL_ANALYST :> {view_folder, add_filteringlabel,
                       codename("view", "personalaccesstoken")}
                          \cup {codename(v, "threat") : v \in Verbs})
    @@ (RL_DOMAIN_MANAGER :> {view_folder, add_filteringlabel}
                                 \cup {codename(v, "threat") : v \in Verbs}
                                 \cup {codename(v, "folder") : v \in Verbs})

\* the provisioner at statement `pc` of a call for `folder`; `k` numbers the
\* builtin at hand, `ra` is the assignment created last (ra1 .. ra4)
Running(pc, folder, k, ra, called) ==
    [pc |-> pc, folder |-> folder, k |-> k, ra |-> ra, called |-> called]

NoRow == [role |-> ""]

\* the call: the test on content_type (line 194)
ProvCall(folder) ==
    /\ prov.pc = "idle"
    /\ folder \in FolderIds \ prov.called
    /\ prov' = Running(IF folders[folder].content_type = DOMAIN_
                       THEN "create_user_group" ELSE "returned",
                       folder, 1, NoRow, prov.called \cup {folder})
    /\ observed' = NothingObserved
    /\ UNCHANGED <<located, folders, usergroups, user_groups, roles, role_assignments>>

\* UserGroup.objects.create(name=..., folder=folder, builtin=True) (lines 195-206)
ProvCreateUserGroup ==
    /\ prov.pc = "create_user_group"
    /\ usergroups' = usergroups
          \cup {UserGroup(Builtins[prov.k].user_group, prov.folder, TRUE)}
    /\ prov' = IF prov.k < Len(Builtins)
               THEN [prov EXCEPT !.k = prov.k + 1]
               ELSE [prov EXCEPT !.pc = "create_role_assignment", !.k = 1]
    /\ observed' = NothingObserved
    /\ UNCHANGED <<located, folders, user_groups, roles, role_assignments>>

\* the row RoleAssignment.objects.create(...) writes for the builtin k of `folder`
\* (lines 207-213): no perimeter yet
builtin_role_assignment(k, folder) ==
    RoleAssignment(NoPrincipal, UserGroupId(Builtins[k].user_group, folder),
                   Builtins[k].role, {}, TRUE, TRUE, get_root_folder)

\* Role.objects.get(name=...) finds the role and the assignment is created
ProvCreateRoleAssignment ==
    /\ prov.pc = "create_role_assignment"
    /\ Builtins[prov.k].role \in DOMAIN roles
    /\ get_root_folder # NoFolder
    /\ LET ra == builtin_role_assignment(prov.k, prov.folder)
       IN /\ role_assignments' = role_assignments \cup {ra}
          /\ prov' = [prov EXCEPT !.pc = "perimeter_folders_add", !.ra = ra]
    /\ observed' = NothingObserved
    /\ UNCHANGED <<located, folders, usergroups, user_groups, roles>>

\* Role.objects.get raises DoesNotExist, or the assignment has no folder to be
\* attached to: the exception leaves create_default_ug_and_ra
ProvRaise ==
    /\ prov.pc = "create_role_assignment"
    /\ \/ Builtins[prov.k].role \notin DOMAIN roles
       \/ get_root_folder = NoFolder
    /\ prov' = [prov EXCEPT !.pc = "raised"]
    /\ observed' = NothingObserved
    /\ UNCHANGED <<located, folders, usergroups, user_groups, roles, role_assignments>>

\* perimeter_folders_add with a plausible fault: the root folder, to which the
\* assignment is attached, is added instead of the new folder
perimeter_folders_add_root(ra, folder) ==
    [ra EXCEPT !.perimeter_folders = ra.perimeter_folders \cup {get_root_folder}]

\* the assignment after ra.perimeter_folders.add(folder)
perimeter_folders_add(ra, folder) ==
    [ra EXCEPT !.perimeter_folders = ra.perimeter_folders \cup {folder}]

\* ra.perimeter_folders.add(folder) (lines 214, 222, 230, 238)
ProvAddPerimeter ==
    /\ prov.pc = "perimeter_folders_add"
    /\ LET ra == perimeter_folders_add(prov.ra, prov.folder)
       IN /\ role_assignments' = (role_assignments \ {prov.ra}) \cup {ra}
          /\ prov' = IF prov.k < Len(Builtins)
                     THEN [prov EXCEPT !.pc = "create_role_assignment",
                                       !.k = prov.k + 1, !.ra = ra]
                     ELSE [prov EXCEPT !.pc = "returned", !.ra = ra]
    /\ observed' = NothingObserved
    /\ UNCHANGED <<located, folders, usergroups, user_groups, roles>>

\* the caller goes on after the return or the exception
ProvDone ==
    /\ prov.pc \in {"returned", "raised"}
    /\ prov' = [pc |-> "idle", called |-> prov.called]
    /\ observed' = NothingObserved
    /\ UNCHANGED <<located, folders, usergroups, user_groups, roles, role_assignments>>

\* a concurrent reader lists the builtin groups of a folder and, with
\* get_role_assignments, the assignments of each of them
Read(folder) ==
    /\ folder \in FolderIds
    /\ LET groups == {g \in usergroups : g.folder = folder /\ g.builtin}
       IN observed' =
            [folder |-> folder,
             groups |-> {g.name : g \in groups},
             assignments |-> UNION {Range(get_role_assignments(g.id)) :
                                      g \in groups}]
    /\ observed' # observed
    /\ UNCHANGED <<located, folders, usergroups, user_groups, roles, role_assignments, prov>>

\* the store before any domain exists; one builtin role may be missing from the
\* catalog
ProvInit ==
    /\ folders = (1 :> [content_type |-> ROOT, parent_folder |-> NoFolder])
    /\ usergroups = {}
    /\ user_groups = [u \in Users |-> {}]
    /\ \E missing \in {{}, {RL_ANALYST}} :
          roles = [r \in DOMAIN BuiltinCatalog \ missing |-> BuiltinCatalog[r]]
    /\ role_assignments = {}
    /\ prov = [pc |-> "idle", called |-> {}]
    /\ observed = NothingObserved
    /\ located = NotLocated

ProvNext ==
    \/ \E parent \in FolderIds, ct \in {DOMAIN_, ENCLAVE} : CreateFolder(parent, ct)
    \/ \E folder \in FolderIds : ProvCall(folder)
    \/ ProvCreateUserGroup
    \/ ProvCreateRoleAssignment
    \/ ProvRaise
    \/ ProvAddPerimeter
    \/ ProvDone
    \/ \E folder \in FolderIds : Read(folder)

ProvSpec == ProvInit /\ [][ProvNext]_vars

---------------------------------------------------------------------------
(* Folder.get_folder and Folder._navigate_structure *)

\* the values a navigation meets: None, a Folder, an object with attributes, a
\* dictionary with keys
None == [kind |-> "None"]
FolderObject(f) == [kind |-> "Folder", id |-> f]
Object(attrs) == [kind |-> "Object", attrs |-> attrs]
Dict(items) == [kind |-> "Dict", attrs |-> items]

\* current.get(p, None) on a dictionary, getattr(current, p, None) on an object
\* (a Folder has a parent_folder and none of the other names)
step_of(current, p_) ==
    IF current.kind = "Dict"
    THEN IF p_ \in DOMAIN current.attrs THEN current.attrs[p_] ELSE None
    ELSE IF current.kind = "Folder"
         THEN IF /\ p_ = "parent_folder"
                 /\ current.id \in FolderIds
                 /\ parent_folder(current.id) # NoFolder
              THEN FolderObject(parent_folder(current.id))
              ELSE None
         ELSE IF p_ \in DOMAIN current.attrs THEN current.attrs[p_] ELSE None

\* Folder._navigate_structure: follow `path` from `start`, None as soon as a step
\* yields None
navigate_structure(start, path) ==
    LET RECURSIVE each(_, _)
        each(current, i) ==
            IF i > Len(path) THEN current
            ELSE LET next == step_of(current, path[i])
                 IN IF next = None THEN None ELSE each(next, i + 1)
    IN each(start, 1)

\* the paths Folder.get_folder tries, in this order
paths ==
    << <<"folder">>,
       <<"parent_folder">>,
       <<"perimeter", "folder">>,
       <<"entity", "folder">>,
       <<"provider_entity", "folder">>,
       <<"solution", "provider_entity", "folder">>,
       <<"risk_assessment", "perimeter", "folder">>,
       <<"risk_scenario", "risk_assessment", "perimeter", "folder">>,
       <<"compliance_assessment", "perimeter", "folder">> >>

\* Folder.get_folder: the object itself when it is a Folder, else the value of
\* the first path that is not None, else None
get_folder(obj) ==
    LET RECURSIVE each(_)
        each(i) ==
            IF i > Len(paths) THEN None
            ELSE LET folder == navigate_structure(obj, paths[i])
                 IN IF folder # None THEN folder ELSE each(i + 1)
    IN IF obj.kind = "Folder" THEN obj ELSE each(1)

\* the objects handed to get_folder: a Folder, or an object whose folder,
\* parent_folder, perimeter, entity and risk_assessment each are None or lead,
\* directly or through a perimeter, to a Folder or to None
FolderOrNone == {None} \cup {FolderObject(f) : f \in FolderIds}
Objects ==
    {FolderObject(f) : f \in FolderIds}
    \cup {Object([folder |-> a, parent_folder |-> b, perimeter |-> c, entity |-> d,
                  risk_assessment |-> e]) :
            a \in FolderOrNone, b \in FolderOrNone,
            c \in {None} \cup {Object([folder |-> x]) : x \in FolderOrNone},
            d \in {None} \cup {Dict([folder |-> x]) : x \in FolderOrNone},
            e \in {None, Object([perimeter |-> None])}
                   \cup {Object([perimeter |-> Object([folder |-> x])]) :
                           x \in FolderOrNone}}

\* a caller holds an object and is about to call get_folder on it
LocatorInit ==
    /\ folders = (1 :> [content_type |-> ROOT, parent_folder |-> NoFolder])
                   @@ (2 :> [content_type |-> DOMAIN_, parent_folder |-> 1])
    /\ usergroups = {Administrators}
    /\ user_groups = [u \in Users |-> {}]
    /\ roles = Catalog
    /\ role_assignments = {}
    /\ prov = Idle
    /\ observed = NothingObserved
    /\ \E obj \in Objects : located = [pc |-> "calling", obj |-> obj]

\* the call returns
GetFolder ==
    /\ located.pc = "calling"
    /\ located' = [pc |-> "returned", obj |-> located.obj,
                   folder |-> get_folder(located.obj)]
    /\ UNCHANGED <<folders, usergroups, user_groups, roles, role_assignments, prov,
                   observed>>

LocatorNext == GetFolder

LocatorSpec == LocatorInit /\ [][LocatorNext]_vars

---------------------------------------------------------------------------
(* Vocabulary of the properties: the tree and the bindings as relations *)

Principals == Users \cup {g.id : g \in usergroups}

\* f and every folder above it, up to the folder without a parent
RECURSIVE SelfAndAncestors(_)
SelfAndAncestors(f) ==
    IF f = NoFolder THEN {}
    ELSE {f} \cup SelfAndAncestors(folders[f].parent_folder)

\* the folders strictly below F
Descendants(F) == {d \in FolderIds \ {F} : F \in SelfAndAncestors(d)}

\* the assignments that bind P: its own and, for a user, those of its groups
AssignmentsOf(P) ==
    {ra \in role_assignments :
        \/ ra.user = P
        \/ ra.user_group = P
        \/ (P \in Users /\ ra.user_group \in user_groups[P])}

\* some assignment of P holds token T in its role and f, or a folder above f,
\* in its perimeter
Granted(P, T, f) ==
    \E ra \in AssignmentsOf(P) :
        /\ T \in roles[ra.role]
        /\ SelfAndAncestors(f) \cap ra.perimeter_folders # {}

---------------------------------------------------------------------------
\* C1: for every principal P, every permission T other than add_tag and every
\* folder f, is_access_allowed(P, T, f) is true exactly when some assignment of P
\* (its own or one of a group it belongs to) has a role containing T and a
\* perimeter containing f or one of f's ancestors; with no assignment whose role
\* contains T it is false for every folder.
C1_AllowedIffGranted ==
    \A P \in Principals, T \in Permissions \ {add_filteringlabel}, f \in FolderIds :
        /\ is_access_allowed(P, T, f) <=> Granted(P, T, f)
        /\ (\A ra \in AssignmentsOf(P) : T \notin roles[ra.role])
              => ~is_access_allowed(P, T, f)

\* C1 witness: a user is allowed through a group's assignment on a strict
\* ancestor, and another principal without a granting assignment is denied
C1_Witness ==
    \E P \in Users, T \in Permissions \ {add_filteringlabel}, f \in FolderIds :
        /\ is_access_allowed(P, T, f)
        /\ \A ra \in AssignmentsOf(P) :
              T \in roles[ra.role] =>
                  /\ ra.user = NoPrincipal
                  /\ f \notin ra.perimeter_folders
        /\ \E Q \in Principals : ~is_access_allowed(Q, T, f)
---------------------------------------------------------------------------
(* C2 *)

\* the assignment ra of P grants T over the single folder F, and no other
\* assignment of P has T in its role
SoleGrant(P, T, ra, F) ==
    /\ ra \in AssignmentsOf(P)
    /\ T \in roles[ra.role]
    /\ ra.perimeter_folders = {F}
    /\ \A rb \in AssignmentsOf(P) \ {ra} : T \notin roles[rb.role]

\* a grant of T over {F} allows exactly F and the folders below F
ScopeOfGrant(Tokens) ==
    \A P \in Principals, T \in Tokens, ra \in role_assignments, F \in FolderIds :
        SoleGrant(P, T, ra, F) =>
            \A g \in FolderIds :
                is_access_allowed(P, T, g) <=> g \in {F} \cup Descendants(F)

\* flipping is_recursive on an assignment changes no decision of a principal
\* it binds, for any token it grants
FlipKeepsDecisions ==
    \A ra \in role_assignments :
        UpdateIsRecursive(ra) =>
            \A P \in {p \in Principals : ra \in AssignmentsOf(p)},
               T \in roles[ra.role], g \in FolderIds :
                is_access_allowed(P, T, g)' = is_access_allowed(P, T, g)

\* C2 as stated: if an assignment of P grants token T (any token) over perimeter
\* {F}, P having no other assignment granting T, then P is allowed T on every
\* folder of {F} and its descendants and on no folder outside, and flipping the
\* assignment's is_recursive flag changes no decision.
C2_AsStated == ScopeOfGrant(Permissions)

\* C2 amended: the same for every token T other than add_tag; the flip of
\* is_recursive changes no decision of P for any token the assignment grants,
\* add_tag included.
C2_ScopeAndFlip ==
    /\ [](ScopeOfGrant(Permissions \ {add_filteringlabel}))
    /\ [][FlipKeepsDecisions]_vars

\* C2 witness: a non-recursive grant over F that allows a folder strictly below F
\* and denies a folder outside
C2_Witness ==
    \E P \in Principals, T \in Permissions \ {add_filteringlabel},
       ra \in role_assignments, F \in FolderIds :
        /\ SoleGrant(P, T, ra, F)
        /\ ~ra.is_recursive
        /\ \E g \in Descendants(F) : is_access_allowed(P, T, g)
        /\ \E g \in FolderIds \ ({F} \cup Descendants(F)) : ~is_access_allowed(P, T, g)

---------------------------------------------------------------------------
(* C3 *)

\* f is in no perimeter of P and under none of them
Unrelated(P, f) ==
    \A ra \in AssignmentsOf(P) : SelfAndAncestors(f) \cap ra.perimeter_folders = {}

\* C3: a principal with add_tag in the role of any of its assignments is allowed
\* add_tag on every folder, also on the folders in none of its perimeters and
\* under none of them; every other token is denied on such an unrelated folder.
C3_AddTagEverywhere ==
    \A P \in Principals :
        (\E ra \in AssignmentsOf(P) : add_filteringlabel \in roles[ra.role]) =>
            \A f \in FolderIds :
                /\ is_access_allowed(P, add_filteringlabel, f)
                /\ Unrelated(P, f) =>
                      \A T \in Permissions \ {add_filteringlabel} :
                          ~is_access_allowed(P, T, f)

\* C3 witness: add_tag is allowed on an unrelated folder while another token of
\* the same role is denied there
C3_Witness ==
    \E P \in Principals, ra \in role_assignments, f \in FolderIds :
        /\ ra \in AssignmentsOf(P)
        /\ add_filteringlabel \in roles[ra.role]
        /\ Unrelated(P, f)
        /\ is_access_allowed(P, add_filteringlabel, f)
        /\ \E T \in roles[ra.role] \ {add_filteringlabel} : ~is_access_allowed(P, T, f)
---------------------------------------------------------------------------
(* C4 *)

\* the ids of the objects of a type located in folder f (a folder is located in
\* itself)
Located(object_type, f) ==
    IF object_type = FolderType THEN {f}
    ELSE {o.id : o \in {x \in objects_all(object_type) : x.folder = f}}

\* the folders a query from folder q covers
Scope(q) == {q} \cup Descendants(q)

\* the assignments of u that the enumeration of objects takes into account
Enumerated(u) == {ra \in AssignmentsOf(u) : view_folder \in roles[ra.role]}

\* the three returned sets by verb
Ids(r, verb) ==
    CASE verb = "view" -> r.view
      [] verb = "change" -> r.change
      [] verb = "delete" -> r.delete

\* C4: get_accessible_object_ids honours is_recursive.  When the only granting
\* assignment of the user has perimeter {F} and is_recursive = false, no object
\* located in a strict descendant of F is in viewIds, changeIds or deleteIds
\* (although is_access_allowed holds there); with is_recursive = true the
\* objects of every descendant of F inside the query scope are in the set of a
\* verb exactly when the role holds the token of that verb.
C4_ObjectsHonourRecursive ==
    \A u \in Users, q \in FolderIds, object_type \in ObjectTypes,
       ra \in role_assignments, F \in FolderIds :
        (Enumerated(u) = {ra} /\ ra.perimeter_folders = {F}) =>
            LET r == get_accessible_object_ids(q, u, object_type)
            IN /\ r.raised = ""
               /\ ~ra.is_recursive =>
                     \A d \in Descendants(F) :
                         Located(object_type, d)
                             \cap (r.view \cup r.change \cup r.delete) = {}
               /\ ra.is_recursive =>
                     \A d \in Descendants(F) \cap Scope(q), verb \in Verbs :
                         \A o \in Located(object_type, d) :
                             o \in Ids(r, verb)
                                 <=> codename(verb, object_type.name)
                                        \in roles[ra.role]

\* C4 witness: a non-recursive grant of view and change over F leaves out the
\* objects of a folder below F, inside the query scope, on which
\* is_access_allowed holds, while it returns the objects of F itself
C4_Witness ==
    \E u \in Users, ra \in role_assignments, F \in FolderIds :
        /\ Enumerated(u) = {ra}
        /\ ra.perimeter_folders = {F}
        /\ ~ra.is_recursive
        /\ LET r == get_accessible_object_ids(get_root_folder, u, Threat)
           IN /\ Located(Threat, F) \subseteq r.view \cap r.change
              /\ \E d \in Descendants(F) :
                    /\ is_access_allowed(u, codename("view", "threat"), d)
                    /\ Located(Threat, d) # {}
                    /\ Located(Threat, d) \cap r.view = {}

---------------------------------------------------------------------------
(* C5 *)

\* C5: publication overlay.  For a type with a publication flag and a folder
\* attribute, if object O is published in folder F and the viewer V has a
\* view-granting assignment on a child folder C of F, and no grant on F itself,
\* then O is in V's viewIds when C is a DOMAIN and O is not in V's viewIds when C
\* is an ENCLAVE.
C5_PublicationOverlay ==
    \A V \in Users, q \in FolderIds, ra \in role_assignments,
       F \in FolderIds, C \in FolderIds :
        ( /\ AssignmentsOf(V) = {ra}
          /\ {view_folder, codename("view", "threat")} \subseteq roles[ra.role]
          /\ ra.perimeter_folders = {C}
          /\ folders[C].parent_folder = F
          /\ C \in Scope(q) ) =>
            \A O \in {x \in objects_all(Threat) : x.folder = F /\ x.is_published} :
                LET r == get_accessible_object_ids(q, V, Threat)
                IN /\ folders[C].content_type = DOMAIN_ => O.id \in r.view
                   /\ folders[C].content_type = ENCLAVE => O.id \notin r.view

---------------------------------------------------------------------------
(* C9 *)

\* how many times x occurs in the list s
Occurrences(s, x) == Cardinality({i \in 1..Len(s) : s[i] = x})

\* C9: get_role_assignments(principal) is the deduplicated union of the
\* principal's own assignments and, for a user, those of every group it belongs
\* to: each of them occurs exactly once in the result and nothing else occurs.
C9_AssignmentsOnce ==
    \A P \in Principals :
        LET s == get_role_assignments(P)
        IN /\ Range(s) = AssignmentsOf(P)
           /\ \A ra \in AssignmentsOf(P) : Occurrences(s, ra) = 1

---------------------------------------------------------------------------
(* C10 *)

\* C10: get_accessible_folders(folder, user, contentType, codename) is exactly
\* the set of folders that (a) are in the perimeter, or below a perimeter
\* folder, of an assignment of the user whose role holds view_folder and the
\* codename token, whatever its is_recursive flag, (b) are the queried folder or
\* below it, and (c) have the content type asked for, when one is given.
C10_AccessibleFolders ==
    \A q \in FolderIds, u \in Users, ct \in ContentType \cup {NoContentType},
       cn \in Permissions :
        get_accessible_folders(q, u, ct, cn) =
            {x \in FolderIds :
                /\ \E ra \in AssignmentsOf(u) :
                      /\ {view_folder, cn} \subseteq roles[ra.role]
                      /\ SelfAndAncestors(x) \cap ra.perimeter_folders # {}
                /\ x \in Scope(q)
                /\ ct # NoContentType => folders[x].content_type = ct}

\* C10 witness: a non-recursive assignment yields a folder below its perimeter,
\* the scope cuts a perimeter folder off, and the content type filters a folder
\* out
C10_Witness ==
    \E u \in Users, ra \in role_assignments, q \in FolderIds :
        /\ ra \in AssignmentsOf(u)
        /\ ~ra.is_recursive
        /\ \E x \in get_accessible_folders(q, u, NoContentType,
                                           codename("change", "threat")) :
              /\ x \notin ra.perimeter_folders
              /\ x \notin get_accessible_folders(q, u, DOMAIN_,
                                                 codename("change", "threat"))
        /\ ra.perimeter_folders \cap Scope(q) = {}
---------------------------------------------------------------------------
(* C6, C7, C8: the builtin rows of a folder *)

BuiltinGroupNames == {Builtins[k].user_group : k \in 1..Len(Builtins)}

\* the user groups scoped to folder f
GroupsOf(f) == {g \in usergroups : g.folder = f}

\* the assignments of folder f: bound to a group of f, or with f in the perimeter
AssignmentsFor(f) ==
    {ra \in role_assignments :
        \/ ra.user_group \in {UserGroupId(n, f) : n \in BuiltinGroupNames}
        \/ f \in ra.perimeter_folders}

\* C6: create_default_ug_and_ra is all-or-nothing: when one of its steps fails
\* part-way through, the store afterwards holds none of the builtin groups and
\* none of the builtin assignments of that folder.
C6_FailureLeavesNothing ==
    prov.pc = "raised" =>
        /\ GroupsOf(prov.folder) = {}
        /\ AssignmentsFor(prov.folder) = {}

\* C7: no reader concurrent with create_default_ug_and_ra sees a folder with some
\* but not all of its 4 builtin groups and 4 builtin assignments, or a builtin
\* assignment whose perimeter is not yet {folder}.
C7_ReadersSeeAllOrNothing ==
    observed.folder # NoFolder =>
        \/ observed.groups = {} /\ observed.assignments = {}
        \/ /\ observed.groups = BuiltinGroupNames
           /\ Cardinality(observed.assignments) = Len(Builtins)
           /\ \A ra \in observed.assignments :
                 ra.perimeter_folders = {observed.folder}

\* C8: after create_default_ug_and_ra(folder) has returned, a DOMAIN folder has
\* exactly the 4 builtin groups Reader, Approver, Analyst and Domain-Manager
\* scoped to it and exactly 4 builtin assignments, each binding one distinct
\* group and no user to the corresponding builtin role, with perimeter {folder}
\* and is_recursive = true; for a ROOT or ENCLAVE folder no group and no
\* assignment exists.
C8_ProvisionedDomain ==
    prov.pc = "returned" =>
        LET f == prov.folder
        IN IF folders[f].content_type = DOMAIN_
           THEN /\ GroupsOf(f) = {UserGroup(n, f, TRUE) : n \in BuiltinGroupNames}
                /\ Cardinality(GroupsOf(f)) = 4
                /\ Cardinality(AssignmentsFor(f)) = 4
                /\ \A k \in 1..4 :
                      \E ra \in AssignmentsFor(f) :
                          /\ ra.user_group = UserGroupId(Builtins[k].user_group, f)
                          /\ ra.user = NoPrincipal
                          /\ ra.role = Builtins[k].role
                          /\ ra.perimeter_folders = {f}
                          /\ ra.is_recursive
                          /\ ra.builtin
           ELSE /\ GroupsOf(f) = {}
                /\ AssignmentsFor(f) = {}

\* C8 witness: the call has returned for a DOMAIN folder below another DOMAIN
\* folder that was provisioned before
C8_Witness ==
    /\ prov.pc = "returned"
    /\ folders[prov.folder].content_type = DOMAIN_
    /\ Cardinality(GroupsOf(prov.folder)) = 4
    /\ \E g \in prov.called \ {prov.folder} :
          /\ folders[prov.folder].parent_folder = g
          /\ Cardinality(GroupsOf(g)) = 4

---------------------------------------------------------------------------
(* C11 *)

\* the entry of folder f in a permissions map, empty when f has no entry
Entry(m, f) == IF f \in DOMAIN m THEN m[f] ELSE {}

\* C11: get_permissions_per_folder(principal, recursive) maps each folder to
\* exactly the union of the role permissions of the principal's assignments
\* whose perimeter contains the folder, plus, only when recursive is set, those
\* of the assignments with is_recursive set whose perimeter contains a folder
\* strictly above it; with recursive unset, or from an assignment with
\* is_recursive unset, the folders below a perimeter folder receive nothing.
C11_PermissionsPerFolder ==
    \A P \in Principals, recursive \in BOOLEAN :
        LET m == get_permissions_per_folder(P, recursive)
        IN /\ DOMAIN m \subseteq FolderIds
           /\ \A f \in FolderIds :
                 Entry(m, f) =
                    UNION {roles[ra.role] :
                             ra \in {rb \in AssignmentsOf(P) :
                                \/ f \in rb.perimeter_folders
                                \/ /\ recursive
                                   /\ rb.is_recursive
                                   /\ (SelfAndAncestors(f) \ {f})
                                         \cap rb.perimeter_folders # {}}}

\* C11 witness: a user holds, through its group, a recursive assignment over a
\* folder with a folder below it; the folder below gets the role's permissions
\* with recursive set and has no entry with recursive unset
C11_Witness ==
    \E u \in Users, ra \in role_assignments, F \in FolderIds :
        /\ ra.user_group \in user_groups[u]
        /\ ra.is_recursive
        /\ ra.perimeter_folders = {F}
        /\ \E d \in Descendants(F) :
              /\ Entry(get_permissions_per_folder(u, TRUE), d) = roles[ra.role]
              /\ d \notin DOMAIN get_permissions_per_folder(u, FALSE)

---------------------------------------------------------------------------
(* C12 *)

\* C12: every persisted RoleAssignment binds exactly one principal: exactly one
\* of user and user_group is set (a creation with both or with neither is
\* rejected with InvalidAssignment and leaves the store unchanged).
C12_OnePrincipal ==
    \A ra \in role_assignments :
        (ra.user = NoPrincipal) # (ra.user_group = NoPrincipal)

---------------------------------------------------------------------------
(* C13 *)

\* C13: whenever the store holds more than one folder of content_type ROOT,
\* get_root_folder fails: it returns neither a folder nor None.
C13_RootFailsLoudly ==
    Cardinality({f \in FolderIds : folders[f].content_type = ROOT}) > 1
        => get_root_folder \notin FolderIds \cup {NoFolder}

---------------------------------------------------------------------------
(* C16 *)

\* the folders a traversal can yield at most before it repeats itself
MostYields == Cardinality(FolderIds)

\* C16: the traversals terminate for every folder of every tree that folder
\* creation and re-parenting produce: get_parent_folders (the walk along
\* parent_folder that is_access_allowed and the publication overlay make too)
\* and get_sub_folders are exhausted after at most as many folders as the store
\* holds.
C16_TraversalsTerminate ==
    \A f \in FolderIds :
        /\ Len(get_parent_folders_first(f, MostYields + 1)) <= MostYields
        /\ Len(get_sub_folders_first(f, MostYields + 1)) <= MostYields

---------------------------------------------------------------------------
(* C17 *)

\* s follows the parent references from f: its parent, its parent's parent, ...
FollowsParents(f, s) ==
    \A i \in 1..Len(s) :
        s[i] = folders[IF i = 1 THEN f ELSE s[i - 1]].parent_folder

\* the folder the k-th parent reference from f leads to
RECURSIVE ParentPower(_, _)
ParentPower(f, k) ==
    IF k = 0 \/ f = NoFolder THEN f
    ELSE ParentPower(folders[f].parent_folder, k - 1)

\* C17 as stated: get_parent_folders(f) yields f's parent, its parent's
\* parent, ... in that order, stops at the folder whose parent is absent
\* without yielding it, and never yields f itself.
C17_AsStated ==
    \A f \in FolderIds :
        LET s == get_parent_folders_first(f, MostYields + 1)
        IN /\ FollowsParents(f, s)
           /\ \A i \in 1..Len(s) : folders[s[i]].parent_folder # NoFolder
           /\ f \notin Range(s)

\* C17 amended: get_parent_folders(f) yields f's parent, its parent's parent,
\* ... in that order; it stops only after the folder whose parent is absent,
\* which it yields as its last folder; it yields f itself only when f is its
\* own ancestor.
C17_AncestorsInOrder ==
    \A f \in FolderIds, n \in 0..(MostYields + 1) :
        LET s == get_parent_folders_first(f, n)
            last == IF s = <<>> THEN f ELSE s[Len(s)]
        IN /\ Len(s) <= n
           /\ Range(s) \subseteq FolderIds
           /\ FollowsParents(f, s)
           /\ Len(s) < n => folders[last].parent_folder = NoFolder
           /\ f \in Range(s) => \E k \in 1..MostYields : ParentPower(f, k) = f

\* C17 witness: a folder two levels below the folder without a parent yields
\* its parent, then that folder, and nothing more
C17_Witness ==
    \E f \in FolderIds :
        LET s == get_parent_folders_first(f, MostYields + 1)
        IN /\ Len(s) = 2
           /\ s[1] = folders[f].parent_folder
           /\ folders[s[2]].parent_folder = NoFolder
           /\ f \notin Range(s)

---------------------------------------------------------------------------
(* C14 *)

\* the paths, by their rank, whose navigation from obj is not None
Yielding(obj) == {i \in 1..Len(paths) : navigate_structure(obj, paths[i]) # None}

\* C14: get_folder tries the paths in their fixed order and returns the folder
\* of the first path that yields one (a Folder resolves to itself); when every
\* path yields None the resolution fails with NoFolder and returns no value.
C14_ResolvesOrFails ==
    located.pc = "returned" =>
        IF located.obj.kind = "Folder" THEN located.folder = located.obj
        ELSE IF Yielding(located.obj) # {}
        THEN LET first == CHOOSE i \in Yielding(located.obj) :
                             \A j \in Yielding(located.obj) : i <= j
             IN located.folder = navigate_structure(located.obj, paths[first])
        ELSE located.folder.kind = "NoFolder"

---------------------------------------------------------------------------
(* C15 *)

\* C15: get_accessible_object_ids called for a type with no attribute leading
\* to a folder (PersonalAccessToken) raises for every user and every folder,
\* users without a granting assignment in the scope included.
C15_UnsupportedAlwaysFails ==
    \A u \in Users, q \in FolderIds :
        get_accessible_object_ids(q, u, PersonalAccessToken).raised
            = "NotImplementedError"

---------------------------------------------------------------------------
(* C18 *)

\* assignment ra reaches folder g for the enumeration: g is in its perimeter or,
\* if it is recursive, below a folder of its perimeter
Reaches(ra, g) ==
    \/ g \in ra.perimeter_folders
    \/ ra.is_recursive /\ SelfAndAncestors(g) \cap ra.perimeter_folders # {}

\* C18: get_accessible_object_ids never over-grants change or delete.  Every id
\* of changeIds (resp. deleteIds) is that of an object located in a folder g of
\* the query scope on which is_access_allowed holds for change_<kind> (resp.
\* delete_<kind>); the publication overlay adds ids to viewIds only; an
\* assignment whose role lacks view_folder contributes to none of the three
\* sets: every returned id comes from a folder that an assignment with
\* view_folder and the verb's token reaches, or is a published object in
\* viewIds.
C18_NoOverGrant ==
    \A u \in Users, q \in FolderIds, object_type \in ObjectTypes :
        LET r == get_accessible_object_ids(q, u, object_type)
            published == {o.id : o \in {x \in objects_all(object_type) :
                                            x.is_published}}
        IN /\ \A verb \in {"change", "delete"} :
                 \A id \in Ids(r, verb) :
                     \E g \in Scope(q) :
                         /\ id \in Located(object_type, g)
                         /\ is_access_allowed(u, codename(verb, object_type.name), g)
           /\ \A verb \in Verbs :
                 \A id \in Ids(r, verb) :
                     \/ \E g \in Scope(q), ra \in Enumerated(u) :
                           /\ id \in Located(object_type, g)
                           /\ codename(verb, object_type.name) \in roles[ra.role]
                           /\ Reaches(ra, g)
                     \/ verb = "view" /\ id \in published

\* C18 witness: an analyst's grant over a folder below the root returns the
\* folder's objects in changeIds and deleteIds, and the object published in the
\* root in viewIds only
C18_Witness ==
    \E u \in Users, ra \in role_assignments, F \in FolderIds :
        /\ Enumerated(u) = {ra}
        /\ ra.perimeter_folders = {F}
        /\ F # get_root_folder
        /\ LET r == get_accessible_object_ids(get_root_folder, u, Threat)
               top == published_in_folder(Threat, get_root_folder)
           IN /\ Located(Threat, F) \subseteq r.change \cap r.delete
              /\ top # {}
              /\ top \subseteq r.view
              /\ top \cap (r.change \cup r.delete) = {}

=============================================================================
